---- MODULE Spec2Model ----
(***************************************************************************)
(* GPUMon (src/gpumon.go): a single sequential loop that samples           *)
(* nvidia-smi, converts the report and posts it to InfluxDB.               *)
(*                                                                         *)
(* Strings are sequences of one-character strings.  A Go int64 / uint64 is *)
(* a tuple of four 16-bit limbs, least significant first (two's complement *)
(* for int64), so that the 64-bit wrap-around of Go arithmetic is kept.    *)
(***************************************************************************)
EXTENDS Integers, Sequences, FiniteSets, TLC

VARIABLES
    pc,          \* position of the single thread of control
    clock,       \* wall clock, read by time.Now()
    hostname,    \* main: hostname, resolved once
    timestamp,   \* main: timestamp of the current cycle
    infos,       \* main: *NvidiaSmiLog returned by getGPUInfo (NULL = nil)
    err,         \* main: error returned by getGPUInfo
    code,        \* postToInfluxdb: status returned by getURL
    idx,         \* postToInfluxdb: position of the range loop
    postbuffer,  \* postToInfluxdb: bytes.Buffer
    sent,        \* HTTP requests issued in the current cycle
    log,         \* glog lines of the current cycle
    lastStamp,   \* timestamp of the previous iteration (0: there is none)
    panic,       \* reason of the runtime panic that ended the process
    arg,         \* argument of the pure function under study
    ret,         \* its return value
    cpc          \* position of the pure-function harness

vars == <<pc, clock, hostname, timestamp, infos, err, code, idx, postbuffer,
          sent, log, lastStamp, panic, arg, ret, cpc>>

loopvars == <<pc, clock, hostname, timestamp, infos, err, code, idx,
              postbuffer, sent, log, lastStamp, panic>>

convvars == <<arg, ret, cpc>>

-----------------------------------------------------------------------------
(* Bounds                                                                  *)

MaxTime == 3        \* clock readings explored (cycles of the loop)
MaxDevices == 2     \* <gpu> entries in one report
MaxLen == 2         \* length of the free part of a quantity string
MaxNameLen == 3     \* length of a product name in the escaping study

-----------------------------------------------------------------------------
(* 64-bit integers as limbs                                                *)

Base == 65536

NumLimbs == 4

Zero64 == <<0, 0, 0, 0>>

MaxUint64 == <<65535, 65535, 65535, 65535>>

MaxInt64 == <<65535, 65535, 65535, 32767>>

MinInt64 == <<0, 0, 0, 32768>>

\* x * m + c over limbs; the result has one more limb than x (the carry out).
RECURSIVE MulAddLimbs(_, _, _)
MulAddLimbs(x, m, c) ==
    IF x = <<>> THEN <<c>>
    ELSE LET t == Head(x) * m + c
         IN  <<t % Base>> \o MulAddLimbs(Tail(x), m, t \div Base)

\* uint64/int64 multiplication by a small constant, wrapping modulo 2^64.
Mul64(x, m) == SubSeq(MulAddLimbs(x, m, 0), 1, NumLimbs)

\* int64 negation, wrapping modulo 2^64.
Neg64(x) ==
    SubSeq(MulAddLimbs([i \in 1..NumLimbs |-> (Base - 1) - x[i]], 1, 1), 1, NumLimbs)

\* unsigned comparison x >= y of two uint64
RECURSIVE GeqLimbs(_, _, _)
GeqLimbs(x, y, i) ==
    IF i = 0 THEN TRUE
    ELSE IF x[i] # y[i] THEN x[i] > y[i]
    ELSE GeqLimbs(x, y, i - 1)

Geq64(x, y) == GeqLimbs(x, y, NumLimbs)

-----------------------------------------------------------------------------
(* strings, strconv                                                        *)

DigitChar == <<"0", "1", "2", "3", "4", "5", "6", "7", "8", "9">>

IsDigit(c) == \E d \in 1..10 : DigitChar[d] = c

DigitVal(c) == (CHOOSE d \in 1..10 : DigitChar[d] = c) - 1

MiBSuffix == <<" ", "M", "i", "B">>

PercentSuffix == <<" ", "%">>

HasPrefix(s, p) == Len(s) >= Len(p) /\ SubSeq(s, 1, Len(p)) = p

HasSuffix(s, suf) ==
    Len(s) >= Len(suf) /\ SubSeq(s, Len(s) - Len(suf) + 1, Len(s)) = suf

\* strings.Replace(s, old, "", -1): every non-overlapping occurrence of old,
\* found left to right, is removed.
RECURSIVE ReplaceAll(_, _)
ReplaceAll(s, old) ==
    IF s = <<>> THEN <<>>
    ELSE IF HasPrefix(s, old) THEN ReplaceAll(SubSeq(s, Len(old) + 1, Len(s)), old)
    ELSE <<Head(s)>> \o ReplaceAll(Tail(s), old)

\* strconv.ParseUint(s, 10, 64), scanning left to right from accumulator n:
\* a non-digit is a syntax error (value 0), an accumulator that leaves the
\* uint64 range is a range error (value 2^64 - 1); the first one met wins.
RECURSIVE ParseUintFrom(_, _)
ParseUintFrom(s, n) ==
    IF s = <<>> THEN [val |-> n, err |-> "nil"]
    ELSE IF ~IsDigit(Head(s)) THEN [val |-> Zero64, err |-> "syntax"]
    ELSE LET r == MulAddLimbs(n, 10, DigitVal(Head(s)))
         IN  IF r[NumLimbs + 1] # 0 THEN [val |-> MaxUint64, err |-> "range"]
             ELSE ParseUintFrom(Tail(s), SubSeq(r, 1, NumLimbs))

ParseUint(s) ==
    IF s = <<>> THEN [val |-> Zero64, err |-> "syntax"]
    ELSE ParseUintFrom(s, Zero64)

\* strconv.ParseInt(s, 10, 64)
ParseInt(s) ==
    IF s = <<>> THEN [val |-> Zero64, err |-> "syntax"]
    ELSE LET neg  == Head(s) = "-"
             rest == IF Head(s) \in {"+", "-"} THEN Tail(s) ELSE s
             u    == ParseUint(rest)
         IN  IF u.err = "syntax" THEN [val |-> Zero64, err |-> "syntax"]
             ELSE IF ~neg /\ Geq64(u.val, MinInt64)
                  THEN [val |-> MaxInt64, err |-> "range"]
             ELSE IF neg /\ u.val # MinInt64 /\ Geq64(u.val, MinInt64)
                  THEN [val |-> MinInt64, err |-> "range"]
             ELSE [val |-> IF neg THEN Neg64(u.val) ELSE u.val, err |-> "nil"]

-----------------------------------------------------------------------------
(* unit conversion                                                         *)

memUsage2Int(usage) ==
    IF HasSuffix(usage, MiBSuffix)
    THEN LET mega    == ReplaceAll(usage, MiBSuffix)
             megaInt == ParseInt(mega).val
         IN  Mul64(Mul64(megaInt, 1024), 1024)
    ELSE Zero64

utilization2Float(utilization) ==
    IF HasSuffix(utilization, PercentSuffix)
    THEN LET ut    == ReplaceAll(utilization, PercentSuffix)
             utInt == ParseInt(ut).val
         IN  utInt
    ELSE Zero64

-----------------------------------------------------------------------------
(* net/url: QueryEscape                                                    *)

AlphaNum ==
    {"a", "b", "c", "d", "e", "f", "g", "h", "i", "j", "k", "l", "m",
     "n", "o", "p", "q", "r", "s", "t", "u", "v", "w", "x", "y", "z",
     "A", "B", "C", "D", "E", "F", "G", "H", "I", "J", "K", "L", "M",
     "N", "O", "P", "Q", "R", "S", "T", "U", "V", "W", "X", "Y", "Z",
     "0", "1", "2", "3", "4", "5", "6", "7", "8", "9"}

\* the two upper-case hex digits of the byte of each escapable character used
ByteHex ==
    [c \in {" ", "%", "+", ",", "/", "="} |->
        CASE c = " " -> <<"2", "0">>
          [] c = "%" -> <<"2", "5">>
          [] c = "+" -> <<"2", "B">>
          [] c = "," -> <<"2", "C">>
          [] c = "/" -> <<"2", "F">>
          [] c = "=" -> <<"3", "D">>]

\* a shouldEscape that lets '+' through
shouldEscapeNoPlus(c) == ~(c \in AlphaNum \cup {"-", "_", ".", "~", "+"})

\* url.shouldEscape(c, encodeQueryComponent)
shouldEscape(c) == ~(c \in AlphaNum \cup {"-", "_", ".", "~"})

\* url.QueryEscape(s)
RECURSIVE QueryEscape(_)
QueryEscape(s) ==
    IF s = <<>> THEN <<>>
    ELSE LET c == Head(s)
         IN  (IF ~shouldEscape(c) THEN <<c>>
              ELSE IF c = " " THEN <<"+">>
              ELSE <<"%">> \o ByteHex[c]) \o QueryEscape(Tail(s))

-----------------------------------------------------------------------------
(* Inputs of the pure functions                                            *)

Numeral(ds) == [i \in 1..Len(ds) |-> DigitChar[ds[i] + 1]]

SeqsUpTo(S, n) == UNION {[1..k -> S] : k \in 0..n}

QuantityChars == {"0", "1", "9", "-", "x"}

\* 2^43 - 1, 2^43, 2^63 - 1, 2^63, -2^63, -2^63 - 1, and the spec's examples
BoundaryNumerals ==
    { Numeral(<<1, 1, 5, 1, 9>>), Numeral(<<8, 3>>), Numeral(<<1, 0, 0>>),
      <<"+", "5">>,
      Numeral(<<8, 7, 9, 6, 0, 9, 3, 0, 2, 2, 2, 0, 7>>),
      Numeral(<<8, 7, 9, 6, 0, 9, 3, 0, 2, 2, 2, 0, 8>>),
      Numeral(<<9, 2, 2, 3, 3, 7, 2, 0, 3, 6, 8, 5, 4, 7, 7, 5, 8, 0, 7>>),
      Numeral(<<9, 2, 2, 3, 3, 7, 2, 0, 3, 6, 8, 5, 4, 7, 7, 5, 8, 0, 8>>),
      <<"-">> \o Numeral(<<9, 2, 2, 3, 3, 7, 2, 0, 3, 6, 8, 5, 4, 7, 7, 5, 8, 0, 8>>),
      <<"-">> \o Numeral(<<9, 2, 2, 3, 3, 7, 2, 0, 3, 6, 8, 5, 4, 7, 7, 5, 8, 0, 9>>),
      Numeral(<<9, 9, 9, 9, 9, 9, 9, 9, 9, 9, 9, 9, 9, 9, 9, 9, 9, 9, 9, 9, 9>>) \o <<"x">> }

QuantitySuffixes == {<<>>, MiBSuffix, PercentSuffix, <<" ", "G", "i", "B">>}

QuantityInputs ==
    { p1 \o s1 \o p2 \o s2 :
        p1 \in SeqsUpTo(QuantityChars, MaxLen) \cup BoundaryNumerals,
        s1 \in QuantitySuffixes,
        p2 \in SeqsUpTo(QuantityChars, 1),
        s2 \in QuantitySuffixes }

NameChars == {"K", "8", "C", "2", "-", " ", ",", "=", "+", "%"}

ProductNames == SeqsUpTo(NameChars, MaxNameLen)

-----------------------------------------------------------------------------
(* Harness: one call of a pure function on one input                       *)

\* the nil *NvidiaSmiLog
NULL == [nil |-> TRUE]

LoopIdle ==
    /\ pc = "idle" /\ clock = 0 /\ hostname = "" /\ timestamp = 0
    /\ infos = NULL /\ err = "nil" /\ code = 0 /\ idx = 0
    /\ postbuffer = <<>> /\ sent = <<>> /\ log = <<>> /\ lastStamp = 0
    /\ panic = "none"

InitMem == LoopIdle /\ arg \in QuantityInputs /\ ret = Zero64 /\ cpc = "memUsage2Int"

CallMemUsage2Int ==
    /\ cpc = "memUsage2Int"
    /\ ret' = memUsage2Int(arg)
    /\ cpc' = "returnedMem"
    /\ UNCHANGED <<arg, loopvars>>

SpecMem == InitMem /\ [][CallMemUsage2Int]_vars

InitUtil == LoopIdle /\ arg \in QuantityInputs /\ ret = Zero64 /\ cpc = "utilization2Float"

CallUtilization2Float ==
    /\ cpc = "utilization2Float"
    /\ ret' = utilization2Float(arg)
    /\ cpc' = "returnedUtil"
    /\ UNCHANGED <<arg, loopvars>>

SpecUtil == InitUtil /\ [][CallUtilization2Float]_vars

InitEscape == LoopIdle /\ arg \in ProductNames /\ ret = <<>> /\ cpc = "QueryEscape"

CallQueryEscape ==
    /\ cpc = "QueryEscape"
    /\ ret' = QueryEscape(arg)
    /\ cpc' = "returnedEscape"
    /\ UNCHANGED <<arg, loopvars>>

SpecEscape == InitEscape /\ [][CallQueryEscape]_vars

-----------------------------------------------------------------------------
(* Exact (unbounded) integers, used to state what a conversion should      *)
(* return: a sign and a magnitude of as many limbs as needed.              *)

RECURSIVE Norm(_)
Norm(m) == IF m # <<>> /\ m[Len(m)] = 0 THEN Norm(SubSeq(m, 1, Len(m) - 1)) ELSE m

Exact(neg, m) == [neg |-> neg /\ Norm(m) # <<>>, mag |-> Norm(m)]

RECURSIVE NatOfDigits(_, _)
NatOfDigits(ds, acc) ==
    IF ds = <<>> THEN acc
    ELSE NatOfDigits(Tail(ds), Norm(MulAddLimbs(acc, 10, DigitVal(Head(ds)))))

IsNumeral(s) ==
    LET ds == IF s # <<>> /\ Head(s) \in {"+", "-"} THEN Tail(s) ELSE s
    IN  ds # <<>> /\ \A i \in 1..Len(ds) : IsDigit(ds[i])

ExactOfNumeral(s) ==
    Exact(Head(s) = "-",
          NatOfDigits(IF Head(s) \in {"+", "-"} THEN Tail(s) ELSE s, <<>>))

ExactOfInt64(x) ==
    IF x[NumLimbs] >= 32768 THEN Exact(TRUE, Neg64(x)) ELSE Exact(FALSE, x)

ExactTimes(e, m) == Exact(e.neg, MulAddLimbs(e.mag, m, 0))

InInt64Range(e) ==
    /\ Len(e.mag) <= NumLimbs
    /\ Len(e.mag) = NumLimbs => \/ e.mag[NumLimbs] < 32768
                                \/ e.neg /\ e.mag = MinInt64

\* s has exactly the form "<integer n><suf>" with n a 64-bit integer
WellFormed(s, suf) ==
    /\ HasSuffix(s, suf)
    /\ LET n == SubSeq(s, 1, Len(s) - Len(suf))
       IN  IsNumeral(n) /\ InInt64Range(ExactOfNumeral(n))

IntegerPart(s, suf) == ExactOfNumeral(SubSeq(s, 1, Len(s) - Len(suf)))

-----------------------------------------------------------------------------
(* C7: memUsage2Int returns exactly n * 1,048,576 for an input             *)
(* "<integer n> MiB" and 0 for every other input (other suffix, malformed  *)
(* or out-of-range integer part, further " MiB" occurrences), without      *)
(* 64-bit wrap-around.                                                     *)
C7_MemUsageExactOrZero ==
    cpc = "returnedMem" =>
        IF WellFormed(arg, MiBSuffix)
        THEN ExactOfInt64(ret) = ExactTimes(ExactTimes(IntegerPart(arg, MiBSuffix), 1024), 1024)
        ELSE ret = Zero64

(* C8: utilization2Float returns n unchanged for an input "<integer n> %"  *)
(* and 0 for every other input; a percentage 0..100 is emitted as 0..100.  *)
C8_UtilizationUnchangedOrZero ==
    cpc = "returnedUtil" =>
        IF WellFormed(arg, PercentSuffix)
        THEN /\ ExactOfInt64(ret) = IntegerPart(arg, PercentSuffix)
             /\ (\E n \in 0..100 : IntegerPart(arg, PercentSuffix) = Exact(FALSE, <<n>>))
                    => ret[1] \in 0..100 /\ SubSeq(ret, 2, NumLimbs) = <<0, 0, 0>>
        ELSE ret = Zero64

-----------------------------------------------------------------------------
(* url.QueryUnescape, the decoder a reader of the tag would apply          *)

HexDigits ==
    {"0", "1", "2", "3", "4", "5", "6", "7", "8", "9",
     "A", "B", "C", "D", "E", "F", "a", "b", "c", "d", "e", "f"}

\* the character of a hex pair; "?" stands for a byte outside the alphabet
CharOfHex(h) ==
    IF \E c \in DOMAIN ByteHex : ByteHex[c] = h
    THEN CHOOSE c \in DOMAIN ByteHex : ByteHex[c] = h
    ELSE "?"

RECURSIVE QueryUnescape(_)
QueryUnescape(s) ==
    IF s = <<>> THEN [ok |-> TRUE, val |-> <<>>]
    ELSE IF Head(s) = "%"
    THEN IF Len(s) < 3 \/ s[2] \notin HexDigits \/ s[3] \notin HexDigits
         THEN [ok |-> FALSE, val |-> <<>>]
         ELSE LET r == QueryUnescape(SubSeq(s, 4, Len(s)))
              IN  [ok |-> r.ok,
                   val |-> IF r.ok THEN <<CharOfHex(<<s[2], s[3]>>)>> \o r.val ELSE <<>>]
    ELSE LET r == QueryUnescape(Tail(s))
         IN  [ok |-> r.ok,
              val |-> IF r.ok THEN <<IF Head(s) = "+" THEN " " ELSE Head(s)>> \o r.val
                      ELSE <<>>]

Count(s, P(_)) == Cardinality({i \in 1..Len(s) : P(s[i])})

IsPercent(c) == c = "%"

IsPlus(c) == c = "+"

IsSpace(c) == c = " "

\* the characters a tag value may hold as they are
Unreserved == AlphaNum \cup {"-", "_", ".", "~"}

NeedsEscaping(c) == c \notin Unreserved

EscapedAsHex(c) == NeedsEscaping(c) /\ c # " "

(* C9 as stated: in the product tag no character that requires escaping    *)
(* appears raw, each such character of the name is rendered as a %XX       *)
(* escape, and decoding the tag yields the name.                           *)
C9_PercentEncodedRoundTrip ==
    cpc = "returnedEscape" =>
        /\ \A i \in 1..Len(ret) : NeedsEscaping(ret[i]) => ret[i] = "%"
        /\ Count(ret, IsPercent) = Count(arg, NeedsEscaping)
        /\ QueryUnescape(ret) = [ok |-> TRUE, val |-> arg]

(* C9 amended: the product tag holds only unreserved characters, '+' and   *)
(* %XX escapes; every space of the name is rendered as '+', every other    *)
(* character that requires escaping as a %XX escape, so none of them       *)
(* appears raw, and decoding the tag yields the name.                      *)
C9_QueryEscapedRoundTrip ==
    cpc = "returnedEscape" =>
        /\ \A i \in 1..Len(ret) :
              /\ NeedsEscaping(ret[i]) => ret[i] \in {"%", "+"}
              /\ ret[i] = "%" => /\ i + 2 <= Len(ret)
                                 /\ ret[i + 1] \in HexDigits
                                 /\ ret[i + 2] \in HexDigits
        /\ Count(ret, IsPlus) = Count(arg, IsSpace)
        /\ Count(ret, IsPercent) = Count(arg, EscapedAsHex)
        /\ QueryUnescape(ret) = [ok |-> TRUE, val |-> arg]

C9_Witness ==
    /\ cpc = "returnedEscape"
    /\ arg = <<"K", " ", "+">>
    /\ ret = <<"K", "+", "%", "2", "B">>

-----------------------------------------------------------------------------
(* Reports nvidia-smi can produce                                          *)

Str(ds, suf) == Numeral(ds) \o suf

K80Memory ==
    [Total |-> Str(<<1, 1, 5, 1, 9>>, MiBSuffix),
     Used  |-> Str(<<0>>, MiBSuffix),
     Free  |-> Str(<<1, 1, 5, 1, 9>>, MiBSuffix)]

BusyMemory ==
    [Total |-> Str(<<1, 6>>, MiBSuffix),
     Used  |-> Str(<<9>>, MiBSuffix),
     Free  |-> <<"N", "/", "A">>]

IdleUtilization ==
    [GPUUtil     |-> Str(<<0>>, PercentSuffix),
     MemoryUtil  |-> Str(<<0>>, PercentSuffix),
     EncoderUtil |-> Str(<<0>>, PercentSuffix),
     DecoderUtil |-> Str(<<0>>, PercentSuffix)]

BusyUtilization ==
    [GPUUtil     |-> Str(<<8, 3>>, PercentSuffix),
     MemoryUtil  |-> Str(<<1, 0, 0>>, PercentSuffix),
     EncoderUtil |-> <<"N", "/", "A">>,
     DecoderUtil |-> Str(<<7>>, PercentSuffix)]

\* a product and the readings nvidia-smi prints for it
Boards ==
    { [ProductName |-> <<"T", "e", "s", "l", "a", " ", "K", "8", "0">>,
       FBMemoryUsage |-> K80Memory, Bar1MemoryUsage |-> K80Memory,
       Utilization |-> IdleUtilization],
      [ProductName |-> <<"A", "=", ",", "+">>,
       FBMemoryUsage |-> BusyMemory, Bar1MemoryUsage |-> K80Memory,
       Utilization |-> BusyUtilization] }

\* GPUInfo
Devices ==
    { [ID |-> id, ProductName |-> b.ProductName,
       MinorNumber |-> IF id = "0" THEN 0 ELSE 1,
       FBMemoryUsage |-> b.FBMemoryUsage, Bar1MemoryUsage |-> b.Bar1MemoryUsage,
       Utilization |-> b.Utilization] :
        id \in {"0", "1"}, b \in Boards }

\* NvidiaSmiLog
Reports ==
    { [DriverVersion |-> "375.26", AttachedGPUs |-> Len(l), GPUInfoList |-> l] :
        l \in SeqsUpTo(Devices, MaxDevices) }

Hostnames == {"node1", ""}

GetOutcomes == {"neterr", "readerr", "200", "500"}

PostOutcomes == {"neterr", "redirecterr", "readerr", "204", "500"}

\* resp.StatusCode of a response that arrived
StatusCode(o) ==
    CASE o = "200" -> 200
      [] o = "204" -> 204
      [] o = "500" -> 500
      [] o = "readerr" -> 200
      [] o = "redirecterr" -> 302

-----------------------------------------------------------------------------
(* Encoding                                                                *)

Newline == [text |-> "\n"]

IsPoint(t) == t # Newline

\* fmt.Sprintf("%s,%s value=%d %d", mesurement, tags, value, timestamp)
Point(mesurement, tags, value, ts) ==
    [mesurement |-> mesurement, tags |-> tags, value |-> value, timestamp |-> ts]

\* an appendPoint that drops what the buffer holds
appendPointOverwrite(output, mesurement, tags, value, ts) ==
    <<Point(mesurement, tags, value, ts)>>

appendPoint(output, mesurement, tags, value, ts) ==
    (IF Len(output) > 0 THEN output \o <<Newline>> ELSE output)
        \o <<Point(mesurement, tags, value, ts)>>

\* fmt.Sprintf("hostname=%s,gpuid=%s,product=%s,minor=%d", ...)
Tags(host, gpustat) ==
    [hostname |-> host, gpuid |-> gpustat.ID,
     product |-> QueryEscape(gpustat.ProductName), minor |-> gpustat.MinorNumber]

\* a Reset that leaves the buffer as it is
ResetKeeps(buf) == buf

\* postbuffer.Reset()
Reset(buf) == <<>>

\* one iteration of the range loop up to the call of postURL
DevicePayload(buf, gpustat, host, ts) ==
    LET tags == Tags(host, gpustat)
        b0 == Reset(buf)
        b1 == appendPoint(b0, "fbmemory/total", tags, memUsage2Int(gpustat.FBMemoryUsage.Total), ts)
        b2 == appendPoint(b1, "fbmemory/used", tags, memUsage2Int(gpustat.FBMemoryUsage.Used), ts)
        b3 == appendPoint(b2, "fbmemory/free", tags, memUsage2Int(gpustat.FBMemoryUsage.Free), ts)
        b4 == appendPoint(b3, "bar1memory/total", tags, memUsage2Int(gpustat.Bar1MemoryUsage.Total), ts)
        b5 == appendPoint(b4, "bar1memory/used", tags, memUsage2Int(gpustat.Bar1MemoryUsage.Used), ts)
        b6 == appendPoint(b5, "bar1memory/free", tags, memUsage2Int(gpustat.Bar1MemoryUsage.Free), ts)
        b7 == appendPoint(b6, "gpu", tags, utilization2Float(gpustat.Utilization.GPUUtil), ts)
        b8 == appendPoint(b7, "gpu/encoder", tags, utilization2Float(gpustat.Utilization.EncoderUtil), ts)
        b9 == appendPoint(b8, "gpu/decoder", tags, utilization2Float(gpustat.Utilization.DecoderUtil), ts)
    IN  b9

Errorf(msg) == [level |-> "ERROR", msg |-> msg, status |-> 0]

Infof(msg) == [level |-> "INFO", msg |-> msg, status |-> 0]

\* glog.Infof("response status[%d] %s", resp.StatusCode, body)
InfofStatus(st) == [level |-> "INFO", msg |-> "response status", status |-> st]

Request(method, url, body, outcome) ==
    [method |-> method, url |-> url, body |-> body, outcome |-> outcome]

-----------------------------------------------------------------------------
(* The loop of main                                                        *)

Init ==
    /\ pc = "loop"
    /\ clock = 1
    /\ hostname \in Hostnames
    /\ timestamp = 0
    /\ infos = NULL
    /\ err = "nil"
    /\ code = 0
    /\ idx = 0
    /\ postbuffer = <<>>
    /\ sent = <<>>
    /\ log = <<>>
    /\ lastStamp = 0
    /\ panic = "none"
    /\ arg = <<>> /\ ret = <<>> /\ cpc = "none"

\* time passes while the process blocks in a network call
Tick ==
    /\ pc \in {"getURL", "postURL"}
    /\ clock < MaxTime
    /\ clock' = clock + 1
    /\ UNCHANGED <<pc, hostname, timestamp, infos, err, code, idx, postbuffer,
                   sent, log, lastStamp, panic, convvars>>

\* main: timestamp := time.Now(); getGPUInfo() returns a report
SampleOk ==
    /\ pc = "loop"
    /\ timestamp' = clock
    /\ \E r \in Reports : infos' = r
    /\ err' = "nil"
    /\ sent' = <<>>
    /\ log' = <<>>
    /\ pc' = "getURL"
    /\ UNCHANGED <<clock, hostname, code, idx, postbuffer, lastStamp, panic, convvars>>

\* main: getGPUInfo() fails (the command cannot run or exits non-zero, or the
\* output does not decode); the error is logged and postToInfluxdb is called
SampleFail ==
    /\ pc = "loop"
    /\ timestamp' = clock
    /\ infos' = NULL
    /\ \E e \in {"exec", "xml"} : err' = e
    /\ sent' = <<>>
    /\ log' = <<Errorf("get GPU info error")>>
    /\ pc' = "getURL"
    /\ UNCHANGED <<clock, hostname, code, idx, postbuffer, lastStamp, panic, convvars>>

\* a getURL step after which a failed creation returns from postToInfluxdb
GetURLAbortsOnFailure ==
    /\ pc = "getURL"
    /\ postbuffer' = <<>>
    /\ \E o \in GetOutcomes :
          /\ sent' = Append(sent, Request("GET", "query?q=CREATE%20DATABASE%20GPU", <<>>, o))
          /\ code' = IF o \in {"neterr", "readerr"} THEN -1 ELSE StatusCode(o)
          /\ log' = log
                \o (CASE o = "neterr" -> <<Errorf("url get error")>>
                      [] o = "readerr" -> <<Errorf("parse url response error")>>
                      [] OTHER -> <<Infof("got response")>>)
                \o (IF code' # 200 THEN <<Errorf("create database faild")>> ELSE <<>>)
    /\ idx' = 0
    /\ pc' = IF code' # 200 /\ infos # NULL THEN "sleep" ELSE "range"
    /\ UNCHANGED <<clock, hostname, timestamp, infos, err, lastStamp, panic, convvars>>

\* postToInfluxdb: the buffer is declared, the database is created
GetURL ==
    /\ pc = "getURL"
    /\ postbuffer' = <<>>
    /\ \E o \in GetOutcomes :
          /\ sent' = Append(sent, Request("GET", "query?q=CREATE%20DATABASE%20GPU", <<>>, o))
          /\ code' = IF o \in {"neterr", "readerr"} THEN -1 ELSE StatusCode(o)
          /\ log' = log
                \o (CASE o = "neterr" -> <<Errorf("url get error")>>
                      [] o = "readerr" -> <<Errorf("parse url response error")>>
                      [] OTHER -> <<Infof("got response")>>)
                \o (IF code' # 200 THEN <<Errorf("create database faild")>> ELSE <<>>)
    /\ idx' = 0
    /\ pc' = "range"
    /\ UNCHANGED <<clock, hostname, timestamp, infos, err, lastStamp, panic, convvars>>

\* range xmlinfo.GPUInfoList with xmlinfo = nil
RangeNil ==
    /\ pc = "range"
    /\ infos = NULL
    /\ pc' = "crashed"
    /\ panic' = "nil pointer dereference: xmlinfo.GPUInfoList"
    /\ UNCHANGED <<clock, hostname, timestamp, infos, err, code, idx, postbuffer,
                   sent, log, lastStamp, convvars>>

\* the next device: its nine points are appended to the buffer
RangeNext ==
    /\ pc = "range"
    /\ infos # NULL
    /\ idx < Len(infos.GPUInfoList)
    /\ idx' = idx + 1
    /\ postbuffer' = DevicePayload(postbuffer, infos.GPUInfoList[idx'], hostname, timestamp)
    /\ pc' = "postURL"
    /\ UNCHANGED <<clock, hostname, timestamp, infos, err, code, sent, log,
                   lastStamp, panic, convvars>>

\* the range loop is over, postToInfluxdb returns
RangeDone ==
    /\ pc = "range"
    /\ infos # NULL
    /\ idx >= Len(infos.GPUInfoList)
    /\ pc' = "sleep"
    /\ UNCHANGED <<clock, hostname, timestamp, infos, err, code, idx, postbuffer,
                   sent, log, lastStamp, panic, convvars>>

\* postURL: a response arrives (possibly unreadable, possibly not a success)
PostURLResponse ==
    /\ pc = "postURL"
    /\ \E o \in PostOutcomes \ {"neterr"} :
          /\ sent' = Append(sent, Request("POST", "write?db=GPU", postbuffer, o))
          /\ log' = log \o <<Infof("posting")>>
                \o (IF o = "redirecterr" THEN <<Errorf("post error")>> ELSE <<>>)
                \o (IF o \in {"redirecterr", "readerr"} THEN <<Errorf("error read response")>>
                    ELSE <<>>)
                \o <<InfofStatus(StatusCode(o))>>
    /\ pc' = "range"
    /\ UNCHANGED <<clock, hostname, timestamp, infos, err, code, idx, postbuffer,
                   lastStamp, panic, convvars>>

\* postURL: http.Post returns an error and a nil response; resp.Body panics
PostURLError ==
    /\ pc = "postURL"
    /\ sent' = Append(sent, Request("POST", "write?db=GPU", postbuffer, "neterr"))
    /\ log' = log \o <<Infof("posting"), Errorf("post error")>>
    /\ pc' = "crashed"
    /\ panic' = "nil pointer dereference: resp.Body"
    /\ UNCHANGED <<clock, hostname, timestamp, infos, err, code, idx, postbuffer,
                   lastStamp, convvars>>

\* time.Sleep(5 * time.Second); the iteration ends and its variables,
\* timestamp, infos, err and the locals of postToInfluxdb, go out of scope
Sleep ==
    /\ pc = "sleep"
    /\ clock < MaxTime
    /\ clock' = clock + 1
    /\ lastStamp' = timestamp
    /\ timestamp' = 0
    /\ infos' = NULL
    /\ err' = "nil"
    /\ code' = 0
    /\ idx' = 0
    /\ postbuffer' = <<>>
    /\ sent' = <<>>
    /\ log' = <<>>
    /\ pc' = "loop"
    /\ UNCHANGED <<hostname, panic, convvars>>

Next ==
    \/ Tick
    \/ SampleOk
    \/ SampleFail
    \/ GetURL
    \/ RangeNil
    \/ RangeNext
    \/ RangeDone
    \/ PostURLResponse
    \/ PostURLError
    \/ Sleep

Spec == Init /\ [][Next]_vars

-----------------------------------------------------------------------------
(* What a cycle has put on the wire                                        *)

IsWrite(r) == r.method = "POST"

Writes == SelectSeq(sent, IsWrite)

PointsOf(body) == SelectSeq(body, IsPoint)

RECURSIVE AllPoints(_)
AllPoints(ws) == IF ws = <<>> THEN <<>> ELSE PointsOf(Head(ws).body) \o AllPoints(Tail(ws))

NumDevices == Len(infos.GPUInfoList)

SamplingFailed == err # "nil"

SamplingSucceeded == infos # NULL

Measurements ==
    <<"fbmemory/total", "fbmemory/used", "fbmemory/free",
      "bar1memory/total", "bar1memory/used", "bar1memory/free",
      "gpu", "gpu/encoder", "gpu/decoder">>

\* p carries the tag set of device d
TaggedFor(p, d) ==
    /\ p.tags.hostname = hostname
    /\ p.tags.gpuid = d.ID
    /\ p.tags.minor = d.MinorNumber
    /\ QueryUnescape(p.tags.product) = [ok |-> TRUE, val |-> d.ProductName]

(* C1: a cycle whose sampling failed never ends the process: the loop      *)
(* reaches its sleep and samples again.                                    *)
C1_SamplingFailureNeverTerminates ==
    SamplingFailed => pc # "crashed"

(* C2: in a cycle whose sampling or decoding failed no request at all, be  *)
(* it the database creation or a write, is sent to the sink.               *)
C2_FailedCycleSendsNothing ==
    SamplingFailed => sent = <<>>

(* C3: a write that failed, by a network error or by a non-success status, *)
(* never crashes the loop.                                                 *)
C3_WriteFailureNeverCrashes ==
    (\E i \in 1..Len(sent) : IsWrite(sent[i]) /\ sent[i].outcome # "204")
        => pc # "crashed"

C5_NinePointsPerDevice ==
    (SamplingSucceeded /\ pc \in {"sleep", "crashed"}) =>
        \A pts \in {AllPoints(Writes)} :
            /\ Len(pts) = 9 * NumDevices
            /\ \A k \in 1..NumDevices :
                  /\ TaggedFor(pts[9 * (k - 1) + 1], infos.GPUInfoList[k])
                  /\ \A m \in 1..9 : \A p \in {pts[9 * (k - 1) + m]} :
                        /\ p.mesurement = Measurements[m]
                        /\ p.tags = pts[9 * (k - 1) + 1].tags
                        /\ p.timestamp = timestamp
            /\ \A m1, m2 \in 1..9 : m1 # m2 => Measurements[m1] # Measurements[m2]

(* C6: in a publishing cycle the database-creation request precedes every  *)
(* write request, and a failed creation (network error, read error, status *)
(* other than 200) is logged and never suppresses the writes.              *)
C6_CreateFirstAndNeverSuppressesWrite ==
    /\ \A i \in 1..Len(sent) :
          IF i = 1 THEN sent[i].method = "GET" ELSE sent[i].method = "POST"
    /\ (SamplingSucceeded /\ code \notin {0, 200}) =>
          /\ \E i \in 1..Len(log) : log[i] = Errorf("create database faild")
          /\ pc \in {"range", "postURL", "sleep", "crashed"}
          /\ pc = "sleep" => Len(Writes) = NumDevices
          /\ pc = "crashed" => Len(Writes) >= 1

C6_Witness ==
    /\ pc = "sleep"
    /\ SamplingSucceeded
    /\ code = -1
    /\ sent[1].outcome = "neterr"
    /\ Len(Writes) = 2

(* C10: cycles are independent: the body of every write request holds only *)
(* points built from the report of its own cycle (the device the request   *)
(* is for) and stamped with the timestamp read at the start of that cycle, *)
(* which is later than that of the cycle before; no line of an earlier     *)
(* cycle or device is in it, and it has no leading, trailing or empty line.*)
C10_WritesCarryOnlyThisCycle ==
    \A ws \in {Writes} :
        /\ ws # <<>> => SamplingSucceeded /\ timestamp > lastStamp /\ timestamp <= clock
        /\ \A k \in 1..Len(ws) : \A body \in {ws[k].body} :
              /\ body # <<>>
              /\ Len(body) <= 2 * Len(Measurements) - 1
              /\ TaggedFor(body[1], infos.GPUInfoList[k])
              /\ \A j \in 1..Len(body) :
                    IF j % 2 = 1
                    THEN /\ IsPoint(body[j])
                         /\ body[j].timestamp = timestamp
                         /\ body[j].mesurement = Measurements[(j + 1) \div 2]
                         /\ body[j].tags = body[1].tags
                    ELSE body[j] = Newline /\ j < Len(body)

C10_Witness ==
    /\ lastStamp > 0
    /\ SamplingSucceeded
    /\ NumDevices = 2
    /\ infos.GPUInfoList[1].ID # infos.GPUInfoList[2].ID
    /\ Len(Writes) = 2
    /\ Len(Writes[2].body) = 17

====
